---- MODULE Spec2Model ----
(***************************************************************************)
(* EVODEX MCP server: compound-name resolution (lookup_smiles and its      *)
(* three resolvers) and the tiered reaction evaluation                     *)
(* (EVODEXEvaluator.evaluate_reaction), src/evodex-mcp-server.py.          *)
(*                                                                         *)
(* Python strings that the code inspects (strip, startswith, truthiness,   *)
(* f-string concatenation) are sequences of one-character strings; the     *)
(* empty string is <<>>.  An Optional[str] is a record [none, str].        *)
(* One evaluate_reaction request is a sequence of steps, one per call to   *)
(* an external capability (a resolver or the chemistry library); the       *)
(* outcome of each external call is chosen nondeterministically.           *)
(***************************************************************************)
EXTENDS Naturals, Sequences, FiniteSets

VARIABLES
    pc,               \* position in evaluate_reaction / lookup_smiles
    target,           \* which name lookup_smiles is resolving
    result,           \* the ReactionResult object
    substrate_smiles, \* local of evaluate_reaction (Optional[str])
    product_smiles,   \* local of evaluate_reaction (Optional[str])
    reaction_smiles,  \* local of evaluate_reaction (str)
    f_id,             \* local of evaluate_reaction (Optional[str])
    c_matches,        \* local of evaluate_reaction (list of str)
    n_matches,        \* local of evaluate_reaction (list of str)
    e_matches,        \* local of evaluate_reaction (list of str)
    resolver_calls,   \* this request's calls to the resolvers, with results
    chem_calls,       \* this request's calls to the chemistry capability
    request,          \* the tool call handle_call_tool is serving
    oracle,           \* the external capabilities as functions of their input
    verdicts,         \* what each request pair was answered with first
    agent_pc,         \* QwenMCPAgent: "ready", inside run's "loop", or "done"
    mcp_session,      \* self.mcp_session
    session_context,  \* self._session_context
    stdio_context,    \* self._stdio_context
    has_agent,        \* whether self.agent was ever assigned
    initialized,      \* whether the latest initialize() returned normally
    releases,         \* the __aexit__ calls of the latest close(), in order
    messages,         \* run's message list
    iteration,        \* loop iterations of run begun so far
    model_inputs,     \* the message list of each self.agent.run so far
    requested,        \* the function_call of each tool request so far
    relayed,          \* each mcp_session.call_tool of this run, with its reply
    last_response,    \* what the latest model invocation ended with
    run_result        \* what run returned or raised

serverVars == <<pc, target, result, substrate_smiles, product_smiles,
                reaction_smiles, f_id, c_matches, n_matches, e_matches,
                resolver_calls, chem_calls, request>>

pureVars == <<oracle, verdicts>>

\* what the server's steps leave alone
connVars ==
    <<mcp_session, session_context, stdio_context, has_agent, initialized,
      releases>>
runVars ==
    <<messages, iteration, model_inputs, requested, relayed, last_response,
      run_result>>
agentVars == <<agent_pc, connVars, runVars>>

outsideServer == <<pureVars, agentVars>>

vars == <<serverVars, pureVars, agentVars>>

----------------------------------------------------------------------------
(* Bounds and input alphabets *)

\* longest list match_operators returns in the model
MaxMatches == 2

\* status code the CACTUS branch accepts
HTTP_OK == 200

\* compound names a request may carry (non-empty strings), and the
\* (substrate_name, product_name) pairs requests are made with
Names == { <<"a">>, <<"b", "\"">> }
Requests == { r \in Names \X Names : r[1] # r[2] }

\* structural identifiers the services may answer with
S1 == <<"C", "O">>
S2 == <<"C", "\\", "C">>

\* identifiers the chemistry capability may answer with
F1 == <<"F", "1">>
M1 == <<"M", "1">>
M2 == <<"M", "2">>
MatchIds == {M1, M2}

\* all sequences over S of length at most n
RECURSIVE SeqsUpTo(_, _)
SeqsUpTo(S, n) ==
    IF n = 0 THEN { <<>> }
    ELSE LET shorter == SeqsUpTo(S, n - 1)
         IN  shorter \cup { Append(q, x) : q \in { t \in shorter : Len(t) = n - 1 }, x \in S }

----------------------------------------------------------------------------
(* Python values *)

None == [none |-> TRUE, str |-> <<>>]
Str(s) == [none |-> FALSE, str |-> s]

\* `if smiles:` on an Optional[str]: None and "" are falsy
Truthy(v) == ~v.none /\ v.str # <<>>

\* a value returned normally, and an exception leaving the function
Returns(v) == [exc |-> FALSE, val |-> v]
Raises == [exc |-> TRUE, val |-> None]

IsWhitespace(c) == c \in {" ", "\n", "\t"}

\* str.strip(): drop leading and trailing whitespace
RECURSIVE LStrip(_)
LStrip(s) ==
    IF s # <<>> /\ IsWhitespace(Head(s)) THEN LStrip(Tail(s)) ELSE s

RECURSIVE RStrip(_)
RStrip(s) ==
    IF s # <<>> /\ IsWhitespace(s[Len(s)]) THEN RStrip(SubSeq(s, 1, Len(s) - 1)) ELSE s

Strip(s) == RStrip(LStrip(s))

\* str.startswith(prefix)
StartsWith(s, prefix) ==
    Len(s) >= Len(prefix) /\ SubSeq(s, 1, Len(prefix)) = prefix

ErrorMarker == <<"E", "r", "r", "o", "r">>

----------------------------------------------------------------------------
(* Outcomes of the external name-lookup services *)

\* pcp.get_compounds(name, 'name'): raises, or a list of compounds, each
\* given by its isomeric_smiles attribute
PubChemOutcomes ==
    { [raises |-> TRUE,  compounds |-> <<>>],
      [raises |-> FALSE, compounds |-> <<>>],
      [raises |-> FALSE, compounds |-> <<None>>],
      [raises |-> FALSE, compounds |-> <<Str(<<>>)>>],
      [raises |-> FALSE, compounds |-> <<Str(S2), Str(S1)>>] }

\* requests.get(url, timeout=10): raises (network error, timeout), or a
\* response with a status code and a body
CactusOutcomes ==
    { [raises |-> TRUE,  status_code |-> 0,   text |-> <<>>],
      [raises |-> FALSE, status_code |-> 404, text |-> S1],
      [raises |-> FALSE, status_code |-> 500, text |-> <<>>],
      [raises |-> FALSE, status_code |-> HTTP_OK, text |-> <<>>],
      [raises |-> FALSE, status_code |-> HTTP_OK, text |-> <<" ", "\n">>],
      [raises |-> FALSE, status_code |-> HTTP_OK, text |-> ErrorMarker \o <<":">>],
      [raises |-> FALSE, status_code |-> HTTP_OK, text |-> <<" ">> \o ErrorMarker],
      [raises |-> FALSE, status_code |-> HTTP_OK, text |-> <<" ">> \o S1 \o <<"\n">>] }

\* a JSON object of the ChemSpider API: the keys it has and their values
JsonObject(keys, queryId, results, smiles) ==
    [keys |-> keys, queryId |-> queryId, results |-> results, smiles |-> smiles]

EmptyObject == JsonObject({}, <<>>, <<>>, None)

\* one HTTP exchange with ChemSpider: the request raises, or a response with
\* a status code whose body is JSON (is_json) or not
HttpFailure == [raises |-> TRUE, status_code |-> 0, is_json |-> FALSE, body |-> EmptyObject]
HttpReply(status, is_json, body) ==
    [raises |-> FALSE, status_code |-> status, is_json |-> is_json, body |-> body]

PostOutcomes ==
    { HttpFailure,
      HttpReply(401, TRUE, EmptyObject),
      HttpReply(HTTP_OK, FALSE, EmptyObject),
      HttpReply(HTTP_OK, TRUE, EmptyObject),
      HttpReply(HTTP_OK, TRUE, JsonObject({"queryId"}, <<"q">>, <<>>, None)) }

ResultsOutcomes ==
    { HttpFailure,
      HttpReply(500, TRUE, EmptyObject),
      HttpReply(HTTP_OK, TRUE, EmptyObject),
      HttpReply(HTTP_OK, TRUE, JsonObject({"results"}, <<>>, <<>>, None)),
      HttpReply(HTTP_OK, TRUE, JsonObject({"results"}, <<>>, <<7>>, None)) }

DetailsOutcomes ==
    { HttpFailure,
      HttpReply(404, TRUE, EmptyObject),
      HttpReply(HTTP_OK, FALSE, EmptyObject),
      HttpReply(HTTP_OK, TRUE, EmptyObject),
      HttpReply(HTTP_OK, TRUE, JsonObject({"smiles"}, <<>>, <<>>, None)),
      HttpReply(HTTP_OK, TRUE, JsonObject({"smiles"}, <<>>, <<>>, Str(<<>>))),
      HttpReply(HTTP_OK, TRUE, JsonObject({"id", "smiles"}, <<>>, <<>>, Str(S2))) }

ChemSpiderOutcomes ==
    [post : PostOutcomes, results : ResultsOutcomes, details : DetailsOutcomes]

----------------------------------------------------------------------------
(* The three resolvers *)

\* body of the try block of get_smiles_pubchem
pubchem_try(out) ==
    IF out.raises THEN Raises
    ELSE IF out.compounds # <<>> THEN Returns(out.compounds[1])
    ELSE Returns(None)

\* get_smiles_pubchem: `except Exception` turns every failure into None
get_smiles_pubchem(out) ==
    LET r == pubchem_try(out) IN IF r.exc THEN Returns(None) ELSE r

\* body of the try block of get_smiles_cactus
cactus_try(out) ==
    IF out.raises THEN Raises
    ELSE IF out.status_code = HTTP_OK
         THEN LET smiles == Strip(out.text)
              IN  IF smiles # <<>> /\ ~StartsWith(smiles, ErrorMarker)
                  THEN Returns(Str(smiles))
                  ELSE Returns(None)
         ELSE Returns(None)

\* get_smiles_cactus without its `except Exception` clause
get_smiles_cactus_no_except(out) == cactus_try(out)

\* get_smiles_cactus: `except Exception` turns every failure into None
get_smiles_cactus(out) ==
    LET r == cactus_try(out) IN IF r.exc THEN Returns(None) ELSE r

\* requests' raise_for_status() followed by response.json(): TRUE when one
\* of them raises
ResponseFails(resp) ==
    resp.raises \/ resp.status_code >= 400 \/ ~resp.is_json

\* body of the try block of get_smiles_chemspider: three exchanges in a row,
\* the first failure (request error, error status, non-JSON body, missing
\* key, empty result list) raises
chemspider_try(out) ==
    IF ResponseFails(out.post) \/ "queryId" \notin out.post.body.keys
    THEN Raises
    ELSE IF ResponseFails(out.results)
            \/ "results" \notin out.results.body.keys
            \/ out.results.body.results = <<>>
    THEN Raises
    ELSE IF ResponseFails(out.details)
    THEN Raises
    ELSE IF "smiles" \in out.details.body.keys
    THEN Returns(out.details.body.smiles)
    ELSE Returns(None)

\* get_smiles_chemspider: `except Exception` turns every failure into None
get_smiles_chemspider(out) ==
    LET r == chemspider_try(out) IN IF r.exc THEN Returns(None) ELSE r

----------------------------------------------------------------------------
(* Outcomes of the chemistry capability *)

\* assign_evodex_F(reaction_smiles): raises, or an identifier, or nothing
FormulaOutcomes ==
    { Raises, Returns(None), Returns(Str(<<>>)), Returns(Str(F1)) }

\* match_operators(reaction_smiles, type): raises, or a list of identifiers
MatchOutcomes ==
    { [exc |-> TRUE, val |-> <<>>] }
    \cup { [exc |-> FALSE, val |-> l] : l \in SeqsUpTo(MatchIds, MaxMatches) }

----------------------------------------------------------------------------
(* Conclusions: a conclusion is the sequence of the pieces of its text *)

NoConclusion == <<>>
SubstrateUnresolved == <<"Could not resolve substrate to SMILES">>
ProductUnresolved == <<"Could not resolve product to SMILES">>
NoMatchConclusion == <<"No match found to any known enzymatic reactions">>
FormulaOnlyConclusion ==
    <<"The reaction has precedent with other reactions with a similar formula difference, but the specific mechanism is unprecedented">>
ReactiveGroupsConclusion ==
    <<"The reaction has precedent with other reactions sharing similar reactive groups, but the specific mechanism is unprecedented">>
PartialConclusion ==
    <<"The reaction matches known reaction mechanisms partially but not the entire electronic manifold is present.">>
\* the full-match conclusion with a count that is off by one
FullMatchConclusion_off_by_one(matches) ==
    <<"Full enzymatic match found with ", Len(matches) - 1, " mechanism(s)">>

\* f"Full enzymatic match found with {len(e_matches)} mechanism(s)"
FullMatchConclusion(matches) ==
    <<"Full enzymatic match found with ", Len(matches), " mechanism(s)">>

----------------------------------------------------------------------------
(* evaluate_reaction *)

\* ReactionResult(...) as constructed at the start of evaluate_reaction
NewResult(s, p) ==
    [substrate_name |-> s, product_name |-> p,
     substrate_smiles |-> <<>>, product_smiles |-> <<>>,
     matches |-> <<>>, conclusion |-> NoConclusion]

\* no request in progress: no result object, no locals
NoResult == NewResult(<<>>, <<>>)

\* the loop with insert(0, ...) in place of append(...)
RECURSIVE AppendMatches_at_front(_, _)
AppendMatches_at_front(matches, l) ==
    IF l = <<>> THEN matches
    ELSE AppendMatches_at_front(<<[evodex_id |-> Head(l)]>> \o matches, Tail(l))

\* `for match in l: result.matches.append({"evodex_id": match})`
RECURSIVE AppendMatches(_, _)
AppendMatches(matches, l) ==
    IF l = <<>> THEN matches
    ELSE AppendMatches(Append(matches, [evodex_id |-> Head(l)]), Tail(l))

\* f"{substrate_smiles}>>{product_smiles}"
ReactionSmiles(s, p) == s \o <<">", ">">> \o p

\* the name lookup_smiles was called with
CompoundName ==
    IF target = "substrate" THEN result.substrate_name ELSE result.product_name

\* one entry of resolver_calls: the resolver, the name it was given, whether
\* its service call failed inside it, whether it raised, and what it returned
ResolverCall(resolver, failed, r) ==
    [resolver |-> resolver, name |-> CompoundName, failed |-> failed,
     raised |-> r.exc, ret |-> r.val]

\* one entry of chem_calls: the function and its arguments, whether it
\* raised, and what it returned
ChemCall(fn, type, raised, id, list) ==
    [fn |-> fn, operator_type |-> type, arg |-> reaction_smiles,
     raised |-> raised, ret_id |-> id, ret_list |-> list]

lookupVars == <<target, result, substrate_smiles, product_smiles, reaction_smiles>>
tierVars == <<f_id, c_matches, n_matches, e_matches>>

\* no tool call is being served
NoRequest == [name |-> "", arguments |-> [substrate_name |-> None, product_name |-> None]]

\* the tool calls a client may make: evaluate_reaction with both names, with
\* a name absent (None) or empty, and a tool the server does not have
ToolCalls ==
    { [name |-> "evaluate_reaction",
       arguments |-> [substrate_name |-> Str(r[1]), product_name |-> Str(r[2])]] :
         r \in Requests }
    \cup { [name |-> "evaluate_reaction",
            arguments |-> [substrate_name |-> a[1], product_name |-> a[2]]] :
              a \in { <<None, None>>, <<None, Str(<<"a">>)>>, <<Str(<<"a">>), None>>,
                      <<Str(<<>>), Str(<<"a">>)>>, <<Str(<<"a">>), Str(<<>>)>> } }
    \cup { [name |-> "match_operators",
            arguments |-> [substrate_name |-> Str(<<"a">>),
                           product_name |-> Str(<<"b">>)]] }

Init ==
    /\ request = NoRequest
    /\ pc = "idle"
    /\ target = "substrate"
    /\ result = NoResult
    /\ substrate_smiles = None
    /\ product_smiles = None
    /\ reaction_smiles = <<>>
    /\ f_id = None
    /\ c_matches = <<>>
    /\ n_matches = <<>>
    /\ e_matches = <<>>
    /\ resolver_calls = <<>>
    /\ chem_calls = <<>>

\* evaluate_reaction whose result starts with the matches list left by the
\* earlier evaluation of the same pair
evaluate_reaction_shared_matches(s, p) ==
    /\ pc = "idle"
    /\ result' = [NewResult(s, p) EXCEPT
                      !.matches = IF <<s, p>> \in DOMAIN verdicts
                                  THEN verdicts[<<s, p>>].verdict.matches
                                  ELSE <<>>]
    /\ target' = "substrate"
    /\ pc' = "pubchem"
    /\ UNCHANGED <<substrate_smiles, product_smiles, reaction_smiles,
                   tierVars, resolver_calls, chem_calls>>

\* evaluate_reaction is entered: the result object is created and the
\* substrate lookup begins
evaluate_reaction(s, p) ==
    /\ pc = "idle"
    /\ result' = NewResult(s, p)
    /\ target' = "substrate"
    /\ pc' = "pubchem"
    /\ UNCHANGED <<substrate_smiles, product_smiles, reaction_smiles,
                   tierVars, resolver_calls, chem_calls>>

\* an exception leaves evaluate_reaction (it has no handler of its own)
propagate ==
    /\ pc' = "raised"
    /\ UNCHANGED lookupVars

\* substrate_looked_up without the `return result` of the unresolved branch
substrate_looked_up_no_return(v) ==
    /\ substrate_smiles' = v
    /\ UNCHANGED <<product_smiles, reaction_smiles>>
    /\ target' = "product"
    /\ pc' = "pubchem"
    /\ IF ~Truthy(v)
       THEN result' = [result EXCEPT !.conclusion = SubstrateUnresolved,
                                     !.substrate_smiles = v.str]
       ELSE result' = [result EXCEPT !.substrate_smiles = v.str]

\* substrate_looked_up without `result.substrate_smiles = substrate_smiles`
substrate_looked_up_no_store(v) ==
    /\ substrate_smiles' = v
    /\ UNCHANGED <<product_smiles, reaction_smiles>>
    /\ IF ~Truthy(v)
       THEN /\ result' = [result EXCEPT !.conclusion = SubstrateUnresolved]
            /\ pc' = "returned"
            /\ UNCHANGED target
       ELSE /\ target' = "product"
            /\ pc' = "pubchem"
            /\ UNCHANGED result

\* lookup_smiles(substrate_name) returned v: evaluate_reaction up to the
\* product lookup
substrate_looked_up(v) ==
    /\ substrate_smiles' = v
    /\ UNCHANGED <<product_smiles, reaction_smiles>>
    /\ IF ~Truthy(v)
       THEN /\ result' = [result EXCEPT !.conclusion = SubstrateUnresolved]
            /\ pc' = "returned"
            /\ UNCHANGED target
       ELSE /\ result' = [result EXCEPT !.substrate_smiles = v.str]
            /\ target' = "product"
            /\ pc' = "pubchem"

\* lookup_smiles(product_name) returned v: evaluate_reaction up to the
\* first call of the chemistry capability
product_looked_up(v) ==
    /\ product_smiles' = v
    /\ UNCHANGED <<target, substrate_smiles>>
    /\ IF ~Truthy(v)
       THEN /\ result' = [result EXCEPT !.conclusion = ProductUnresolved]
            /\ pc' = "returned"
            /\ UNCHANGED reaction_smiles
       ELSE /\ result' = [result EXCEPT !.product_smiles = v.str]
            /\ reaction_smiles' = ReactionSmiles(substrate_smiles.str, v.str)
            /\ pc' = "tierF"

\* lookup_smiles returned v to evaluate_reaction
lookup_returns(v) ==
    IF target = "substrate" THEN substrate_looked_up(v) ELSE product_looked_up(v)

\* call_pubchem without the `return smiles` after a hit
call_pubchem_no_return(out) ==
    /\ pc = "pubchem"
    /\ LET r == get_smiles_pubchem(out)
       IN  /\ resolver_calls' = Append(resolver_calls,
                                       ResolverCall("pubchem", pubchem_try(out).exc, r))
           /\ IF r.exc THEN propagate
              ELSE pc' = "cactus" /\ UNCHANGED lookupVars
    /\ UNCHANGED <<tierVars, chem_calls>>

\* lookup_smiles, first resolver
call_pubchem(out) ==
    /\ pc = "pubchem"
    /\ LET r == get_smiles_pubchem(out)
       IN  /\ resolver_calls' = Append(resolver_calls, ResolverCall("pubchem", pubchem_try(out).exc, r))
           /\ IF r.exc THEN propagate
              ELSE IF Truthy(r.val) THEN lookup_returns(r.val)
              ELSE pc' = "cactus" /\ UNCHANGED lookupVars
    /\ UNCHANGED <<tierVars, chem_calls>>

\* lookup_smiles, second resolver
call_cactus(out) ==
    /\ pc = "cactus"
    /\ LET r == get_smiles_cactus(out)
       IN  /\ resolver_calls' = Append(resolver_calls, ResolverCall("cactus", cactus_try(out).exc, r))
           /\ IF r.exc THEN propagate
              ELSE IF Truthy(r.val) THEN lookup_returns(r.val)
              ELSE pc' = "chemspider" /\ UNCHANGED lookupVars
    /\ UNCHANGED <<tierVars, chem_calls>>

\* lookup_smiles, third resolver; with nothing found lookup_smiles
\* returns None
call_chemspider(out) ==
    /\ pc = "chemspider"
    /\ LET r == get_smiles_chemspider(out)
       IN  /\ resolver_calls' = Append(resolver_calls, ResolverCall("chemspider", chemspider_try(out).exc, r))
           /\ IF r.exc THEN propagate
              ELSE IF Truthy(r.val) THEN lookup_returns(r.val)
              ELSE lookup_returns(None)
    /\ UNCHANGED <<tierVars, chem_calls>>

\* check_F without the assignment of the conclusion on a miss
check_F_no_conclusion(out) ==
    /\ pc = "tierF"
    /\ chem_calls' = Append(chem_calls,
                            ChemCall("assign_evodex_F", "", out.exc, out.val, <<>>))
    /\ IF out.exc
       THEN /\ pc' = "raised"
            /\ UNCHANGED <<result, f_id>>
       ELSE /\ f_id' = out.val
            /\ pc' = IF ~Truthy(out.val) THEN "returned" ELSE "tierC"
            /\ UNCHANGED result
    /\ UNCHANGED <<target, substrate_smiles, product_smiles, reaction_smiles,
                   c_matches, n_matches, e_matches, resolver_calls>>

\* F level: f_id = assign_evodex_F(reaction_smiles)
check_F(out) ==
    /\ pc = "tierF"
    /\ chem_calls' = Append(chem_calls,
                            ChemCall("assign_evodex_F", "", out.exc, out.val, <<>>))
    /\ IF out.exc
       THEN /\ pc' = "raised"
            /\ UNCHANGED <<result, f_id>>
       ELSE /\ f_id' = out.val
            /\ IF ~Truthy(out.val)
               THEN /\ result' = [result EXCEPT !.conclusion = NoMatchConclusion]
                    /\ pc' = "returned"
               ELSE /\ pc' = "tierC"
                    /\ UNCHANGED result
    /\ UNCHANGED <<target, substrate_smiles, product_smiles, reaction_smiles,
                   c_matches, n_matches, e_matches, resolver_calls>>

\* check_C without the `return result` after a miss
check_C_no_return(out) ==
    /\ pc = "tierC"
    /\ chem_calls' = Append(chem_calls,
                            ChemCall("match_operators", "C", out.exc, None, out.val))
    /\ IF out.exc
       THEN /\ pc' = "raised"
            /\ UNCHANGED <<result, c_matches>>
       ELSE /\ c_matches' = out.val
            /\ pc' = "tierN"
            /\ IF out.val = <<>>
               THEN result' =
                        [result EXCEPT
                           !.conclusion = FormulaOnlyConclusion,
                           !.matches = Append(@, [evodex_id |-> f_id.str])]
               ELSE UNCHANGED result
    /\ UNCHANGED <<target, substrate_smiles, product_smiles, reaction_smiles,
                   f_id, n_matches, e_matches, resolver_calls>>

\* C level: c_matches = match_operators(reaction_smiles, 'C')
check_C(out) ==
    /\ pc = "tierC"
    /\ chem_calls' = Append(chem_calls,
                            ChemCall("match_operators", "C", out.exc, None, out.val))
    /\ IF out.exc
       THEN /\ pc' = "raised"
            /\ UNCHANGED <<result, c_matches>>
       ELSE /\ c_matches' = out.val
            /\ IF out.val = <<>>
               THEN /\ result' =
                        [result EXCEPT
                           !.conclusion = FormulaOnlyConclusion,
                           !.matches = Append(@, [evodex_id |-> f_id.str])]
                    /\ pc' = "returned"
               ELSE /\ pc' = "tierN"
                    /\ UNCHANGED result
    /\ UNCHANGED <<target, substrate_smiles, product_smiles, reaction_smiles,
                   f_id, n_matches, e_matches, resolver_calls>>

\* check_N with the loop over c_matches left out of the miss branch
check_N_without_c(out) ==
    /\ pc = "tierN"
    /\ chem_calls' = Append(chem_calls,
                            ChemCall("match_operators", "N", out.exc, None, out.val))
    /\ IF out.exc
       THEN /\ pc' = "raised"
            /\ UNCHANGED <<result, n_matches>>
       ELSE /\ n_matches' = out.val
            /\ IF out.val = <<>>
               THEN /\ result' =
                        [result EXCEPT
                           !.conclusion = ReactiveGroupsConclusion,
                           !.matches = Append(@, [evodex_id |-> f_id.str])]
                    /\ pc' = "returned"
               ELSE /\ pc' = "tierE"
                    /\ UNCHANGED result
    /\ UNCHANGED <<target, substrate_smiles, product_smiles, reaction_smiles,
                   f_id, c_matches, e_matches, resolver_calls>>

\* check_N with the call wrapped in a handler that takes an exception of
\* match_operators for an empty result
check_N_catches(out) ==
    /\ pc = "tierN"
    /\ chem_calls' = Append(chem_calls,
                            ChemCall("match_operators", "N", out.exc, None, out.val))
    /\ n_matches' = out.val
    /\ IF out.exc \/ out.val = <<>>
       THEN /\ result' =
                [result EXCEPT
                   !.conclusion = ReactiveGroupsConclusion,
                   !.matches = AppendMatches(
                                   Append(@, [evodex_id |-> f_id.str]),
                                   c_matches)]
            /\ pc' = "returned"
       ELSE /\ pc' = "tierE"
            /\ UNCHANGED result
    /\ UNCHANGED <<target, substrate_smiles, product_smiles, reaction_smiles,
                   f_id, c_matches, e_matches, resolver_calls>>

\* N level: n_matches = match_operators(reaction_smiles, 'N')
check_N(out) ==
    /\ pc = "tierN"
    /\ chem_calls' = Append(chem_calls,
                            ChemCall("match_operators", "N", out.exc, None, out.val))
    /\ IF out.exc
       THEN /\ pc' = "raised"
            /\ UNCHANGED <<result, n_matches>>
       ELSE /\ n_matches' = out.val
            /\ IF out.val = <<>>
               THEN /\ result' =
                        [result EXCEPT
                           !.conclusion = ReactiveGroupsConclusion,
                           !.matches = AppendMatches(
                                           Append(@, [evodex_id |-> f_id.str]),
                                           c_matches)]
                    /\ pc' = "returned"
               ELSE /\ pc' = "tierE"
                    /\ UNCHANGED result
    /\ UNCHANGED <<target, substrate_smiles, product_smiles, reaction_smiles,
                   f_id, c_matches, e_matches, resolver_calls>>

\* E level: e_matches = match_operators(reaction_smiles, 'E'), and the
\* full-match exit
check_E(out) ==
    /\ pc = "tierE"
    /\ chem_calls' = Append(chem_calls,
                            ChemCall("match_operators", "E", out.exc, None, out.val))
    /\ IF out.exc
       THEN /\ pc' = "raised"
            /\ UNCHANGED <<result, e_matches>>
       ELSE /\ e_matches' = out.val
            /\ pc' = "returned"
            /\ IF out.val = <<>>
               THEN result' =
                        [result EXCEPT
                           !.conclusion = PartialConclusion,
                           !.matches = AppendMatches(
                                           AppendMatches(
                                               Append(@, [evodex_id |-> f_id.str]),
                                               c_matches),
                                           n_matches)]
               ELSE result' =
                        [result EXCEPT
                           !.conclusion = FullMatchConclusion(out.val),
                           !.matches = AppendMatches(
                                           AppendMatches(
                                               AppendMatches(
                                                   Append(@, [evodex_id |-> f_id.str]),
                                                   c_matches),
                                               n_matches),
                                           out.val)]
    /\ UNCHANGED <<target, substrate_smiles, product_smiles, reaction_smiles,
                   f_id, c_matches, n_matches, resolver_calls>>

\* handle_call_tool without the check of the two names
handle_call_tool_unchecked(name, arguments) ==
    /\ pc = "idle"
    /\ request' = [name |-> name, arguments |-> arguments]
    /\ IF name = "evaluate_reaction"
       THEN evaluate_reaction(arguments.substrate_name.str, arguments.product_name.str)
       ELSE /\ pc' = "rejected"
            /\ UNCHANGED <<lookupVars, tierVars, resolver_calls, chem_calls>>

\* handle_call_tool up to the call of evaluator.evaluate_reaction: an unknown
\* tool and a missing or empty name raise ValueError
handle_call_tool(name, arguments) ==
    /\ pc = "idle"
    /\ request' = [name |-> name, arguments |-> arguments]
    /\ IF name = "evaluate_reaction"
          /\ Truthy(arguments.substrate_name)
          /\ Truthy(arguments.product_name)
       THEN evaluate_reaction(arguments.substrate_name.str, arguments.product_name.str)
       ELSE /\ pc' = "rejected"
            /\ UNCHANGED <<lookupVars, tierVars, resolver_calls, chem_calls>>

\* f'"{value}"': the value between two double quotes, as it is
RawQuoted(s) == <<"\"">> \o s \o <<"\"">>

\* json.dumps of a str: quotes, with ", \ and control characters escaped
RECURSIVE JsonEscape(_)
JsonEscape(s) ==
    IF s = <<>> THEN <<>>
    ELSE LET c == Head(s)
             e == CASE c = "\"" -> <<"\\", "\"">>
                    [] c = "\\" -> <<"\\", "\\">>
                    [] c = "\n" -> <<"\\", "n">>
                    [] c = "\t" -> <<"\\", "t">>
                    [] OTHER -> <<c>>
         IN  e \o JsonEscape(Tail(s))

JsonDumpsString(s) == <<"\"">> \o JsonEscape(s) \o <<"\"">>

\* str(n) for a small natural number
Decimal(n) ==
    IF n < 10 THEN <<"0", "1", "2", "3", "4", "5", "6", "7", "8", "9">>[n + 1]
    ELSE "many"

\* the conclusion as the str it is: the count of the full-match text in digits
ConclusionText(c) ==
    IF Len(c) = 3 THEN <<c[1], Decimal(c[2]), c[3]>> ELSE c

\* result_text of handle_call_tool, field by field: the text that stands for
\* each value of the JSON object (matches: the strings json.dumps writes)
result_text ==
    [substrate_name |-> RawQuoted(result.substrate_name),
     product_name |-> RawQuoted(result.product_name),
     substrate_smiles |-> RawQuoted(result.substrate_smiles),
     product_smiles |-> RawQuoted(result.product_smiles),
     matches |-> [i \in DOMAIN result.matches |->
                    JsonDumpsString(result.matches[i].evodex_id)],
     conclusion |-> RawQuoted(ConclusionText(result.conclusion))]

\* the character an escape sequence \c of a JSON string stands for
JsonUnescape(c) ==
    CASE c = "n" -> "\n"
      [] c = "t" -> "\t"
      [] OTHER -> c

\* json.loads on the text of one string value: t must be one JSON string,
\* from its opening quote to the closing quote that ends it; i is the
\* position read next, acc the characters decoded so far
RECURSIVE JsonScanString(_, _, _)
JsonScanString(t, i, acc) ==
    IF i > Len(t) THEN [ok |-> FALSE, val |-> acc]
    ELSE IF t[i] = "\"" THEN [ok |-> i = Len(t), val |-> acc]
    ELSE IF t[i] = "\\"
         THEN IF i + 1 <= Len(t)
                 /\ t[i + 1] \in {"\"", "\\", "/", "b", "f", "n", "r", "t"}
              THEN JsonScanString(t, i + 2, Append(acc, JsonUnescape(t[i + 1])))
              ELSE [ok |-> FALSE, val |-> acc]
    ELSE IF t[i] \in {"\n", "\t"} THEN [ok |-> FALSE, val |-> acc]
    ELSE JsonScanString(t, i + 1, Append(acc, t[i]))

JsonLoadsString(t) ==
    IF t # <<>> /\ t[1] = "\"" THEN JsonScanString(t, 2, <<>>)
    ELSE [ok |-> FALSE, val |-> <<>>]

\* the request is over (verdict handed to the caller, or the exception
\* propagated): result object and locals are discarded
request_done ==
    /\ pc \in {"returned", "raised", "rejected"}
    /\ request' = NoRequest
    /\ pc' = "idle"
    /\ target' = "substrate"
    /\ result' = NoResult
    /\ substrate_smiles' = None
    /\ product_smiles' = None
    /\ reaction_smiles' = <<>>
    /\ f_id' = None
    /\ c_matches' = <<>>
    /\ n_matches' = <<>>
    /\ e_matches' = <<>>
    /\ resolver_calls' = <<>>
    /\ chem_calls' = <<>>

----------------------------------------------------------------------------
(* QwenMCPAgent of qwen_agent_mcp.py *)

MaxIterations == 5

\* run's fixed answer when the loop ends without a final response
MaxIterationsText == Str(<<"Max iterations reached without response">>)

Queries == { <<"q">>, <<"w">> }
ToolNames == { "evaluate_reaction", "lookup" }

\* texts the model may give as function_call arguments: {"r": "x\""}, the
\* same cut short, and plain text
ArgTexts ==
    { <<"{", "\"", "r", "\"", ":", " ", "\"", "x", "\\", "\"", "\"", "}">>,
      <<"{", "\"", "r", "\"", ":">>,
      <<"x">> }

\* a JSON string whose opening quote is at position i - 1: the decoded
\* characters and the position after the closing quote
RECURSIVE JsonScanTo(_, _, _)
JsonScanTo(t, i, acc) ==
    IF i > Len(t) THEN [ok |-> FALSE, val |-> acc, next |-> i]
    ELSE IF t[i] = "\"" THEN [ok |-> TRUE, val |-> acc, next |-> i + 1]
    ELSE IF t[i] = "\\"
         THEN IF i + 1 <= Len(t)
                 /\ t[i + 1] \in {"\"", "\\", "/", "b", "f", "n", "r", "t"}
              THEN JsonScanTo(t, i + 2, Append(acc, JsonUnescape(t[i + 1])))
              ELSE [ok |-> FALSE, val |-> acc, next |-> i]
    ELSE IF t[i] \in {"\n", "\t"} THEN [ok |-> FALSE, val |-> acc, next |-> i]
    ELSE JsonScanTo(t, i + 1, Append(acc, t[i]))

\* the first position from i on that holds no blank
RECURSIVE SkipBlanks(_, _)
SkipBlanks(t, i) ==
    IF i <= Len(t) /\ t[i] = " " THEN SkipBlanks(t, i + 1) ELSE i

\* json.loads on the text of an object with one string member: the dict as
\* its key and value, or the failure to parse
JsonLoadsArguments(t) ==
    LET fail == [ok |-> FALSE, key |-> <<>>, val |-> <<>>]
    IN  IF Len(t) < 2 \/ t[1] # "{" \/ t[2] # "\"" THEN fail
        ELSE LET k == JsonScanTo(t, 3, <<>>)
                 c == SkipBlanks(t, k.next)
             IN  IF ~k.ok \/ c > Len(t) \/ t[c] # ":" THEN fail
                 ELSE LET q == SkipBlanks(t, c + 1)
                      IN  IF q > Len(t) \/ t[q] # "\"" THEN fail
                          ELSE LET v == JsonScanTo(t, q + 1, <<>>)
                                   e == SkipBlanks(t, v.next)
                               IN  IF v.ok /\ e = Len(t) /\ t[e] = "}"
                                   THEN [ok |-> TRUE, key |-> k.val, val |-> v.val]
                                   ELSE fail

NoCall == [name |-> "", arguments |-> <<>>]

\* what self.agent.run may yield last: a request for a tool call
FunctionCallResponses ==
    { [is_dict |-> TRUE, role |-> "assistant", has_function_call |-> TRUE,
       function_call |-> [name |-> n, arguments |-> a],
       has_content |-> TRUE, content |-> None] :
      n \in ToolNames, a \in ArgTexts }

\* what self.agent.run may yield last: anything else
FinalResponses ==
    { [is_dict |-> TRUE, role |-> "assistant", has_function_call |-> FALSE,
       function_call |-> NoCall, has_content |-> TRUE, content |-> Str(<<"a">>)],
      [is_dict |-> TRUE, role |-> "assistant", has_function_call |-> FALSE,
       function_call |-> NoCall, has_content |-> TRUE, content |-> None],
      [is_dict |-> TRUE, role |-> "assistant", has_function_call |-> FALSE,
       function_call |-> NoCall, has_content |-> FALSE, content |-> None],
      [is_dict |-> TRUE, role |-> "function", has_function_call |-> TRUE,
       function_call |-> [name |-> "lookup", arguments |-> <<"x">>],
       has_content |-> TRUE, content |-> Str(<<>>)],
      [is_dict |-> FALSE, role |-> "assistant", has_function_call |-> FALSE,
       function_call |-> NoCall, has_content |-> TRUE, content |-> Str(<<"a">>)],
      [is_dict |-> FALSE, role |-> "assistant", has_function_call |-> FALSE,
       function_call |-> NoCall, has_content |-> FALSE, content |-> None] }

NoResponse ==
    [is_dict |-> FALSE, role |-> "", has_function_call |-> FALSE,
     function_call |-> NoCall, has_content |-> FALSE, content |-> None]

\* what the generator of self.agent.run may yield in all
Generators ==
    { <<>> } \cup { <<r>> : r \in FunctionCallResponses \cup FinalResponses }
    \cup { <<f, r>> : f \in FinalResponses,
                      r \in { x \in FunctionCallResponses :
                                x.function_call.name = "lookup" } }

\* what mcp_session.call_tool may do: raise, or return content items
ToolOutcomes ==
    { [raises |-> TRUE, content |-> <<>>],
      [raises |-> FALSE, content |-> <<>>],
      [raises |-> FALSE,
       content |-> << [has_text |-> TRUE, text |-> <<"o">>],
                      [has_text |-> FALSE, text |-> <<"i">>],
                      [has_text |-> TRUE, text |-> <<"k">>] >>] }

\* result_text of _call_mcp_tool_internal
RECURSIVE ResultText(_)
ResultText(content) ==
    IF content = <<>> THEN <<>>
    ELSE (IF Head(content).has_text THEN Head(content).text ELSE <<>>)
         \o ResultText(Tail(content))

\* the request for a tool call as run recognises it
IsToolCall(response) ==
    response.is_dict /\ response.role = "assistant" /\ response.has_function_call

\* str(response)
PyStr(response) == [none |-> FALSE, str |-> <<"str of">>, of |-> response]

\* the content of the response taken whatever it is
FinalText_content_only(response) ==
    IF response.has_content THEN response.content ELSE Str(<<>>)

\* the final answer run takes from a response that is no tool call
FinalText(response) ==
    IF response.is_dict
    THEN LET content == IF response.has_content THEN response.content
                        ELSE Str(<<>>)
         IN  IF Truthy(content) THEN content ELSE PyStr(response)
    ELSE IF response.has_content THEN response.content ELSE PyStr(response)

UserMessage(q) == [role |-> "user", content |-> Str(q)]
AssistantCall(fc) == [role |-> "assistant", content |-> None, function_call |-> fc]
FunctionResult(name, text) == [role |-> "function", name |-> name, content |-> Str(text)]

\* the two appends with the function result put first
AppendToolExchange_result_first(msgs, func_call, tool_result) ==
    msgs \o << FunctionResult(func_call.name, tool_result),
               AssistantCall(func_call) >>

\* messages.append(assistant function_call); messages.append(function result)
AppendToolExchange(msgs, func_call, tool_result) ==
    msgs \o << AssistantCall(func_call),
               FunctionResult(func_call.name, tool_result) >>

\* range(max_iterations + 1) exhausted
RangeExhausted_one_more(i) == i >= MaxIterations + 1

\* range(max_iterations) exhausted after i iterations
RangeExhausted(i) == i >= MaxIterations

NoRunResult == [kind |-> "none", val |-> None]

\* the steps of initialize that may raise
InitSteps ==
    << "stdio_enter", "session_enter", "session_initialize", "list_tools",
       "get_chat_model", "Assistant" >>
FailPoints == { InitSteps[i] : i \in DOMAIN InitSteps } \cup { "none" }
StepIndex(step) == CHOOSE i \in DOMAIN InitSteps : InitSteps[i] = step

\* whether initialize gets past the given step when it fails at fails_at
Passed(step, fails_at) ==
    fails_at = "none" \/ StepIndex(step) < StepIndex(fails_at)

Conn ==
    [mcp_session |-> mcp_session, session_context |-> session_context,
     stdio_context |-> stdio_context, has_agent |-> has_agent]

\* the attributes after the try block of initialize, left at fails_at
TryInitialize(c, fails_at) ==
    [stdio_context |->
         IF Passed("stdio_enter", fails_at) THEN "entered" ELSE "created",
     session_context |->
         IF Passed("session_enter", fails_at) THEN "entered"
         ELSE IF Passed("stdio_enter", fails_at) THEN "created"
         ELSE c.session_context,
     mcp_session |->
         IF Passed("session_enter", fails_at) THEN "session" ELSE c.mcp_session,
     has_agent |-> fails_at = "none" \/ c.has_agent]

\* the attributes after close()
Closed(c) ==
    [c EXCEPT !.session_context = IF @ # "None" THEN "exited" ELSE @,
              !.stdio_context = IF @ # "None" THEN "exited" ELSE @]

\* the __aexit__ calls of close(), with whether each raised
Releases(c, session_raises, stdio_raises) ==
    (IF c.session_context # "None"
     THEN << [context |-> "session", raised |-> session_raises] >> ELSE <<>>)
    \o (IF c.stdio_context # "None"
        THEN << [context |-> "stdio", raised |-> stdio_raises] >> ELSE <<>>)

\* the attributes after initialize(), its except clause included
Initialized(c, fails_at) ==
    IF fails_at = "none" THEN TryInitialize(c, fails_at)
    ELSE Closed(TryInitialize(c, fails_at))

SetConn(c) ==
    /\ mcp_session' = c.mcp_session
    /\ session_context' = c.session_context
    /\ stdio_context' = c.stdio_context
    /\ has_agent' = c.has_agent

NoRun ==
    /\ messages = <<>>
    /\ iteration = 0
    /\ model_inputs = <<>>
    /\ requested = <<>>
    /\ relayed = <<>>
    /\ last_response = NoResponse
    /\ run_result = NoRunResult

InitAgent ==
    /\ agent_pc = "ready"
    /\ mcp_session = "None"
    /\ session_context = "None"
    /\ stdio_context = "None"
    /\ has_agent = FALSE
    /\ initialized = FALSE
    /\ releases = <<>>
    /\ NoRun

initialize(fails_at, session_raises, stdio_raises) ==
    /\ agent_pc = "ready"
    /\ SetConn(Initialized(Conn, fails_at))
    /\ initialized' = (fails_at = "none")
    /\ releases' = IF fails_at = "none" THEN <<>>
                   ELSE Releases(TryInitialize(Conn, fails_at),
                                 session_raises, stdio_raises)
    /\ UNCHANGED <<agent_pc, runVars>>

close(session_raises, stdio_raises) ==
    /\ agent_pc = "ready"
    /\ SetConn(Closed(Conn))
    /\ releases' = Releases(Conn, session_raises, stdio_raises)
    /\ UNCHANGED <<agent_pc, initialized, runVars>>

\* run up to its loop: initialize() when there is no session, then the
\* message list
run(user_query, fails_at, session_raises, stdio_raises) ==
    /\ agent_pc = "ready"
    /\ IF mcp_session = "None"
       THEN /\ SetConn(Initialized(Conn, fails_at))
            /\ initialized' = (fails_at = "none")
            /\ releases' = IF fails_at = "none" THEN <<>>
                           ELSE Releases(TryInitialize(Conn, fails_at),
                                         session_raises, stdio_raises)
       ELSE UNCHANGED connVars
    /\ IF mcp_session = "None" /\ fails_at # "none"
       THEN /\ agent_pc' = "done"
            /\ run_result' = [kind |-> "raised", val |-> None]
            /\ UNCHANGED messages
       ELSE /\ agent_pc' = "loop"
            /\ messages' = << UserMessage(user_query) >>
            /\ UNCHANGED run_result
    /\ UNCHANGED <<iteration, model_inputs, requested, relayed, last_response>>

\* one iteration of run's loop: the model is invoked with the messages, a
\* requested tool call is relayed and its output appended, and the loop
\* goes on, or run returns or raises
run_iteration(responses, tool) ==
    /\ agent_pc = "loop"
    /\ UNCHANGED connVars
    /\ IF ~has_agent
       THEN /\ agent_pc' = "done"
            /\ run_result' = [kind |-> "raised", val |-> None]
            /\ UNCHANGED <<messages, iteration, model_inputs, requested,
                           relayed, last_response>>
       ELSE /\ iteration' = iteration + 1
            /\ model_inputs' = Append(model_inputs, messages)
            /\ IF responses = <<>>
               THEN /\ last_response' = NoResponse
                    /\ agent_pc' = "done"
                    /\ run_result' = [kind |-> "returned", val |-> MaxIterationsText]
                    /\ UNCHANGED <<messages, requested, relayed>>
               ELSE LET response == responses[Len(responses)]
                        func_call == response.function_call
                        func_args == JsonLoadsArguments(func_call.arguments)
                    IN  /\ last_response' = response
                        /\ IF ~IsToolCall(response)
                           THEN /\ agent_pc' = "done"
                                /\ run_result' = [kind |-> "returned",
                                                  val |-> FinalText(response)]
                                /\ UNCHANGED <<messages, requested, relayed>>
                           ELSE /\ requested' = Append(requested, func_call)
                                /\ IF ~func_args.ok
                                   THEN /\ agent_pc' = "done"
                                        /\ run_result' = [kind |-> "raised", val |-> None]
                                        /\ UNCHANGED <<messages, relayed>>
                                   ELSE /\ relayed' = Append(relayed,
                                               [name |-> func_call.name,
                                                arguments |-> [key |-> func_args.key,
                                                               val |-> func_args.val],
                                                reply |-> tool])
                                        /\ IF tool.raises
                                           THEN /\ agent_pc' = "done"
                                                /\ run_result' = [kind |-> "raised",
                                                                  val |-> None]
                                                /\ UNCHANGED messages
                                           ELSE /\ messages' = AppendToolExchange(
                                                       messages, func_call,
                                                       ResultText(tool.content))
                                                /\ IF RangeExhausted(iteration')
                                                   THEN /\ agent_pc' = "done"
                                                        /\ run_result' =
                                                             [kind |-> "returned",
                                                              val |-> MaxIterationsText]
                                                   ELSE /\ agent_pc' = "loop"
                                                        /\ UNCHANGED run_result

\* the caller has the answer or the exception of run; its locals are gone
run_done ==
    /\ agent_pc = "done"
    /\ agent_pc' = "ready"
    /\ messages' = <<>>
    /\ iteration' = 0
    /\ model_inputs' = <<>>
    /\ requested' = <<>>
    /\ relayed' = <<>>
    /\ last_response' = NoResponse
    /\ run_result' = NoRunResult
    /\ UNCHANGED connVars

----------------------------------------------------------------------------
(* The specifications of the server *)

\* nothing is assumed about the external capabilities, nothing is recorded
NoOracle == [names |-> <<>>, chem |-> <<>>]
NoOutcome == [kind |-> "none", verdict |-> NoResult]
NoVerdicts == [r \in Requests |-> NoOutcome]

Next ==
    \/ \E c \in ToolCalls :
          handle_call_tool(c.name, c.arguments) /\ UNCHANGED outsideServer
    \/ \E out \in PubChemOutcomes :
          call_pubchem(out) /\ UNCHANGED <<request, outsideServer>>
    \/ \E out \in CactusOutcomes :
          call_cactus(out) /\ UNCHANGED <<request, outsideServer>>
    \/ \E out \in ChemSpiderOutcomes :
          call_chemspider(out) /\ UNCHANGED <<request, outsideServer>>
    \/ \E out \in FormulaOutcomes :
          check_F(out) /\ UNCHANGED <<request, outsideServer>>
    \/ \E out \in MatchOutcomes :
          check_C(out) /\ UNCHANGED <<request, outsideServer>>
    \/ \E out \in MatchOutcomes :
          check_N(out) /\ UNCHANGED <<request, outsideServer>>
    \/ \E out \in MatchOutcomes :
          check_E(out) /\ UNCHANGED <<request, outsideServer>>
    \/ request_done /\ UNCHANGED outsideServer

\* the server with external capabilities that may answer anything
InitServer ==
    /\ Init
    /\ oracle = NoOracle
    /\ verdicts = NoVerdicts
    /\ InitAgent

Spec == InitServer /\ [][Next]_vars

----------------------------------------------------------------------------
(* The server with external capabilities that are pure functions *)

\* what the three resolvers answer for one name
ResolverProfiles ==
    { [pubchem |-> [raises |-> FALSE, compounds |-> <<Str(S2), Str(S1)>>],
       cactus |-> [raises |-> TRUE, status_code |-> 0, text |-> <<>>],
       chemspider |-> [post |-> HttpFailure, results |-> HttpFailure,
                       details |-> HttpFailure]],
      [pubchem |-> [raises |-> TRUE, compounds |-> <<>>],
       cactus |-> [raises |-> FALSE, status_code |-> HTTP_OK,
                   text |-> <<" ">> \o S1 \o <<"\n">>],
       chemspider |-> [post |-> HttpFailure, results |-> HttpFailure,
                       details |-> HttpFailure]],
      [pubchem |-> [raises |-> FALSE, compounds |-> <<>>],
       cactus |-> [raises |-> FALSE, status_code |-> 404, text |-> S1],
       chemspider |->
           [post |-> HttpReply(HTTP_OK, TRUE, JsonObject({"queryId"}, <<"q">>, <<>>, None)),
            results |-> HttpReply(HTTP_OK, TRUE, JsonObject({"results"}, <<>>, <<7>>, None)),
            details |-> HttpReply(HTTP_OK, TRUE,
                                  JsonObject({"id", "smiles"}, <<>>, <<>>, Str(S2)))]],
      [pubchem |-> [raises |-> TRUE, compounds |-> <<>>],
       cactus |-> [raises |-> TRUE, status_code |-> 0, text |-> <<>>],
       chemspider |-> [post |-> HttpFailure, results |-> HttpFailure,
                       details |-> HttpFailure]] }

\* what the chemistry capability answers for one reaction identifier
ChemProfiles ==
    { [F |-> Returns(None),
       C |-> [exc |-> FALSE, val |-> <<>>],
       N |-> [exc |-> FALSE, val |-> <<>>],
       E |-> [exc |-> FALSE, val |-> <<>>]],
      [F |-> Returns(Str(F1)),
       C |-> [exc |-> FALSE, val |-> <<M1, M2>>],
       N |-> [exc |-> FALSE, val |-> <<M2>>],
       E |-> [exc |-> FALSE, val |-> <<M1>>]],
      [F |-> Returns(Str(F1)),
       C |-> [exc |-> FALSE, val |-> <<M2>>],
       N |-> [exc |-> TRUE, val |-> <<>>],
       E |-> [exc |-> FALSE, val |-> <<>>]] }

ReactionIds == { ReactionSmiles(x, y) : x \in {S1, S2}, y \in {S1, S2} }

Oracles ==
    [names : [Names -> ResolverProfiles], chem : [ReactionIds -> ChemProfiles]]

\* the outcome of the request being served, as its caller sees it
Outcome ==
    [kind |-> pc, verdict |-> IF pc = "returned" THEN result ELSE NoResult]

RequestPair ==
    <<request.arguments.substrate_name.str, request.arguments.product_name.str>>

\* the caller takes the outcome; the first outcome of each pair is recorded
request_done_recorded ==
    /\ request_done
    /\ verdicts' = IF verdicts[RequestPair].kind = "none"
                   THEN [verdicts EXCEPT ![RequestPair] = Outcome]
                   ELSE verdicts
    /\ UNCHANGED <<oracle, agentVars>>

InitPure ==
    /\ Init
    /\ oracle \in Oracles
    /\ verdicts = NoVerdicts
    /\ InitAgent

NextPure ==
    \/ \E r \in Requests :
          /\ handle_call_tool("evaluate_reaction",
                              [substrate_name |-> Str(r[1]), product_name |-> Str(r[2])])
          /\ UNCHANGED outsideServer
    \/ /\ pc = "pubchem"
       /\ call_pubchem(oracle.names[CompoundName].pubchem)
       /\ UNCHANGED <<request, outsideServer>>
    \/ /\ pc = "cactus"
       /\ call_cactus(oracle.names[CompoundName].cactus)
       /\ UNCHANGED <<request, outsideServer>>
    \/ /\ pc = "chemspider"
       /\ call_chemspider(oracle.names[CompoundName].chemspider)
       /\ UNCHANGED <<request, outsideServer>>
    \/ /\ pc = "tierF"
       /\ check_F(oracle.chem[reaction_smiles].F)
       /\ UNCHANGED <<request, outsideServer>>
    \/ /\ pc = "tierC"
       /\ check_C(oracle.chem[reaction_smiles].C)
       /\ UNCHANGED <<request, outsideServer>>
    \/ /\ pc = "tierN"
       /\ check_N(oracle.chem[reaction_smiles].N)
       /\ UNCHANGED <<request, outsideServer>>
    \/ /\ pc = "tierE"
       /\ check_E(oracle.chem[reaction_smiles].E)
       /\ UNCHANGED <<request, outsideServer>>
    \/ request_done_recorded

SpecPure == InitPure /\ [][NextPure]_vars

----------------------------------------------------------------------------
(* QwenMCPAgent through any sequence of calls *)

outsideAgent == <<serverVars, pureVars>>

InitAgentOnly == InitServer

\* the steps of a run that has begun
RunStep ==
    \/ \E g \in Generators, t \in ToolOutcomes : run_iteration(g, t)
    \/ run_done

NextAgent ==
    \/ /\ \E f \in FailPoints, sr \in BOOLEAN, tr \in BOOLEAN :
            initialize(f, sr, tr)
       /\ UNCHANGED outsideAgent
    \/ /\ \E sr \in BOOLEAN, tr \in BOOLEAN : close(sr, tr)
       /\ UNCHANGED outsideAgent
    \/ /\ \E q \in Queries, f \in FailPoints, sr \in BOOLEAN, tr \in BOOLEAN :
            run(q, f, sr, tr)
       /\ UNCHANGED outsideAgent
    \/ /\ \E g \in Generators, t \in ToolOutcomes : run_iteration(g, t)
       /\ UNCHANGED outsideAgent
    \/ /\ run_done
       /\ UNCHANGED outsideAgent

\* one agent through any sequence of initialize(), run() and close()
SpecAgent == InitAgentOnly /\ [][NextAgent]_vars

\* the event loop runs a run that has begun to its end, every model
\* invocation and tool call returning
SpecAgentFair ==
    InitAgentOnly /\ [][NextAgent]_vars /\ WF_vars(RunStep /\ UNCHANGED outsideAgent)

----------------------------------------------------------------------------
(* Properties *)

\* the resolver lookup_smiles tries after resolver r came back empty
ResolverAfter(r) ==
    CASE r = "pubchem" -> "cactus"
      [] r = "cactus" -> "chemspider"
      [] OTHER -> "nothing"

\* positions in resolver_calls of the calls that returned a non-empty identifier
Hits == { i \in DOMAIN resolver_calls : Truthy(resolver_calls[i].ret) }

FirstHit == CHOOSE i \in Hits : \A j \in Hits : i <= j
LastHit == CHOOSE i \in Hits : \A j \in Hits : j <= i

\* the identifiers of a matches list
RECURSIVE Ids(_)
Ids(matches) ==
    IF matches = <<>> THEN <<>> ELSE <<Head(matches).evodex_id>> \o Ids(Tail(matches))

\* C1: lookup_smiles queries PubChem, then CACTUS, then ChemSpider; a
\* resolver is queried only when every earlier one returned nothing, none is
\* queried after one returned a non-empty identifier (the next call, if any,
\* starts the product lookup at PubChem), and the identifier stored for a
\* name is the one its first successful resolver returned.
C1_ResolverOrder ==
    /\ \A i \in DOMAIN resolver_calls :
          LET c == resolver_calls[i]
          IN  IF i = 1
              THEN c.resolver = "pubchem" /\ c.name = result.substrate_name
              ELSE LET prev == resolver_calls[i - 1]
                   IN  IF Truthy(prev.ret)
                       THEN /\ i - 1 = FirstHit
                            /\ c.resolver = "pubchem"
                            /\ c.name = result.product_name
                       ELSE /\ c.resolver = ResolverAfter(prev.resolver)
                            /\ c.name = prev.name
    /\ Cardinality(Hits) <= 2
    /\ result.substrate_smiles =
          IF Hits = {} THEN <<>> ELSE resolver_calls[FirstHit].ret.str
    /\ result.product_smiles =
          IF Cardinality(Hits) < 2 THEN <<>> ELSE resolver_calls[LastHit].ret.str

\* a name that only ChemSpider resolved: the earlier two resolvers were
\* asked first and the stored identifier is ChemSpider's
C1_Witness ==
    /\ Len(resolver_calls) = 3
    /\ ~Truthy(resolver_calls[1].ret)
    /\ ~Truthy(resolver_calls[2].ret)
    /\ resolver_calls[3].resolver = "chemspider"
    /\ resolver_calls[3].ret = Str(S2)
    /\ result.substrate_smiles = S2

\* C2: no failure of a resolver is propagated: no resolver raises and
\* evaluate_reaction is never left by an exception during name lookup; after
\* a resolver that returned nothing the next one is tried; and when all three
\* returned nothing evaluate_reaction returns a verdict with a conclusion.
C2_ResolverFailuresContained ==
    /\ \A i \in DOMAIN resolver_calls : ~resolver_calls[i].raised
    /\ pc = "raised" => chem_calls # <<>>
    /\ resolver_calls # <<>> /\ chem_calls = <<>> =>
          LET last == resolver_calls[Len(resolver_calls)]
          IN  IF Truthy(last.ret)
              THEN pc = IF Cardinality(Hits) = 1 THEN "pubchem" ELSE "tierF"
              ELSE IF last.resolver = "chemspider"
              THEN /\ pc = "returned"
                   /\ result.conclusion =
                          IF Hits = {} THEN SubstrateUnresolved ELSE ProductUnresolved
              ELSE pc = ResolverAfter(last.resolver)

\* all three services failed (exceptions inside the resolvers) and a verdict
\* was returned all the same
C2_Witness ==
    /\ Len(resolver_calls) = 3
    /\ \A i \in 1..3 : resolver_calls[i].failed
    /\ pc = "returned"
    /\ result.conclusion = SubstrateUnresolved

\* the substrate lookup came back with nothing
SubstrateMissed ==
    /\ Len(resolver_calls) >= 3
    /\ \A i \in 1..3 : ~Truthy(resolver_calls[i].ret)

\* C3: when the substrate does not resolve the product is never looked up,
\* the chemistry capability is never called, and the verdict returned is the
\* freshly built one with only the substrate-not-resolved conclusion set.
C3_SubstrateShortCircuit ==
    SubstrateMissed =>
        /\ pc = "returned"
        /\ Len(resolver_calls) = 3
        /\ \A i \in 1..3 : resolver_calls[i].name = result.substrate_name
        /\ chem_calls = <<>>
        /\ result.substrate_smiles = <<>>
        /\ result.product_smiles = <<>>
        /\ result.matches = <<>>
        /\ result.conclusion = SubstrateUnresolved

C3_Witness ==
    /\ SubstrateMissed
    /\ pc = "returned"
    /\ result.substrate_name # result.product_name
    /\ result.conclusion = SubstrateUnresolved

\* the substrate resolved and the product lookup came back with nothing
ProductMissed ==
    /\ Cardinality(Hits) = 1
    /\ Len(resolver_calls) >= FirstHit + 3
    /\ \A i \in (FirstHit + 1)..(FirstHit + 3) : ~Truthy(resolver_calls[i].ret)

\* C4: when the substrate resolves and the product does not, the chemistry
\* capability is never called and the verdict has no matches, an empty
\* product_smiles, the product-not-resolved conclusion and the identifier
\* resolved for the substrate.
C4_ProductShortCircuit ==
    ProductMissed =>
        /\ pc = "returned"
        /\ Len(resolver_calls) = FirstHit + 3
        /\ chem_calls = <<>>
        /\ result.matches = <<>>
        /\ result.product_smiles = <<>>
        /\ result.conclusion = ProductUnresolved
        /\ result.substrate_smiles = resolver_calls[FirstHit].ret.str
        /\ result.substrate_smiles # <<>>

C4_Witness ==
    /\ ProductMissed
    /\ pc = "returned"
    /\ result.substrate_smiles = S1
    /\ result.conclusion = ProductUnresolved


\* a call of the chemistry capability that returned a match / no match
ChemHit(c) ==
    /\ ~c.raised
    /\ IF c.fn = "assign_evodex_F" THEN Truthy(c.ret_id) ELSE c.ret_list # <<>>

ChemMiss(c) == ~c.raised /\ ~ChemHit(c)

\* the identifiers a call of the chemistry capability returned
TierResult(c) ==
    IF c.fn = "assign_evodex_F" THEN <<c.ret_id.str>> ELSE c.ret_list

\* the identifiers returned by the calls before the k-th, in call order
RECURSIVE ResultsBefore(_)
ResultsBefore(k) ==
    IF k <= 1 THEN <<>> ELSE ResultsBefore(k - 1) \o TierResult(chem_calls[k - 1])

\* the conclusion of a miss at the k-th call
MissConclusion(k) ==
    CASE k = 1 -> NoMatchConclusion
      [] k = 2 -> FormulaOnlyConclusion
      [] k = 3 -> ReactiveGroupsConclusion
      [] OTHER -> PartialConclusion

IsPrefix(a, b) == Len(a) <= Len(b) /\ SubSeq(b, 1, Len(a)) = a

\* C5: when the k-th tier is the first to return no match, the verdict's
\* matches are exactly the results of the earlier tiers in tier order and
\* the conclusion is that tier's text; the four texts are pairwise distinct.
C5_TierMissVerdict ==
    /\ Cardinality({NoMatchConclusion, FormulaOnlyConclusion,
                    ReactiveGroupsConclusion, PartialConclusion}) = 4
    /\ chem_calls # <<>> /\ ChemMiss(chem_calls[Len(chem_calls)]) =>
          /\ pc = "returned"
          /\ Ids(result.matches) = ResultsBefore(Len(chem_calls))
          /\ result.conclusion = MissConclusion(Len(chem_calls))

\* the natural tier missed after a formula match and two chemical matches
C5_Witness ==
    /\ Len(chem_calls) = 3
    /\ ChemMiss(chem_calls[3])
    /\ Ids(result.matches) = <<F1, M2, M1>>
    /\ result.conclusion = ReactiveGroupsConclusion

AllTiersHit ==
    Len(chem_calls) = 4 /\ \A i \in 1..4 : ChemHit(chem_calls[i])

\* C6: when all four tiers match, the conclusion is the full-match text with
\* the (positive) number of enzymatic matches, and matches is the formula id
\* followed by the chemical, natural and enzymatic matches.
C6_FullMatchVerdict ==
    AllTiersHit =>
        /\ pc = "returned"
        /\ result.conclusion =
              <<"Full enzymatic match found with ",
                Len(chem_calls[4].ret_list), " mechanism(s)">>
        /\ result.conclusion[2] > 0
        /\ Ids(result.matches) = ResultsBefore(5)

C6_Witness ==
    /\ AllTiersHit
    /\ chem_calls[2].ret_list = <<M1>>
    /\ chem_calls[4].ret_list = <<M2, M1>>
    /\ result.conclusion[2] = 2
    /\ Len(result.matches) = Len(chem_calls[3].ret_list) + 4

\* C7: in a returned verdict, for every tier that matched, the results of
\* all earlier tiers open the matches sequence, in tier order.
C7_MatchesAccumulate ==
    pc = "returned" =>
        \A k \in DOMAIN chem_calls :
            ChemHit(chem_calls[k]) =>
                IsPrefix(ResultsBefore(k), Ids(result.matches))

C7_Witness ==
    /\ pc = "returned"
    /\ AllTiersHit
    /\ chem_calls[2].ret_list = <<M1, M2>>
    /\ chem_calls[3].ret_list = <<M2>>
    /\ Ids(result.matches) = <<F1, M1, M2, M2, M1>>

\* C8: every returned verdict has a conclusion, and its matches are
\* non-empty only if both names resolved and the formula tier matched.
C8_VerdictWellFormed ==
    pc = "returned" =>
        /\ result.conclusion # NoConclusion
        /\ result.matches # <<>> =>
              /\ Cardinality(Hits) = 2
              /\ chem_calls # <<>>
              /\ ChemHit(chem_calls[1])

\* both names resolved and the formula tier found no precedent
C8_Witness ==
    /\ pc = "returned"
    /\ Cardinality(Hits) = 2
    /\ Len(chem_calls) = 1
    /\ ChemMiss(chem_calls[1])
    /\ result.matches = <<>>
    /\ result.conclusion = NoMatchConclusion

\* the function and operator type of the i-th chemistry call
TierCall(i) ==
    CASE i = 1 -> <<"assign_evodex_F", "">>
      [] i = 2 -> <<"match_operators", "C">>
      [] i = 3 -> <<"match_operators", "N">>
      [] OTHER -> <<"match_operators", "E">>

\* C9: the chemistry capability is called in the order formula, chemical,
\* natural, enzymatic, each tier once, a tier only after the previous one
\* matched, only after both names resolved, and always with the reaction
\* identifier substrate>>product of the two resolved identifiers.
C9_TierChain ==
    /\ Len(chem_calls) <= 4
    /\ chem_calls # <<>> => Cardinality(Hits) = 2
    /\ \A i \in DOMAIN chem_calls :
          /\ <<chem_calls[i].fn, chem_calls[i].operator_type>> = TierCall(i)
          /\ chem_calls[i].arg =
                resolver_calls[FirstHit].ret.str \o <<">", ">">>
                    \o resolver_calls[LastHit].ret.str
          /\ i > 1 => ChemHit(chem_calls[i - 1])
    /\ pc = "tierF" => chem_calls = <<>>
    /\ pc = "tierC" => Len(chem_calls) = 1
    /\ pc = "tierN" => Len(chem_calls) = 2
    /\ pc = "tierE" => Len(chem_calls) = 3

C9_Witness ==
    /\ Len(chem_calls) = 4
    /\ pc = "returned"
    /\ chem_calls[4].arg = S1 \o <<">", ">">> \o S2

\* C10: an exception of the chemistry capability leaves evaluate_reaction:
\* the raising call is the request's last chemistry call, no verdict is
\* returned, and the result object is as it was before the call; a verdict
\* is returned only when no call raised.
C10_CapabilityFaultPropagates ==
    /\ \A i \in DOMAIN chem_calls :
          chem_calls[i].raised => i = Len(chem_calls) /\ pc = "raised"
    /\ pc = "raised" =>
          /\ chem_calls # <<>>
          /\ chem_calls[Len(chem_calls)].raised
          /\ result.conclusion = NoConclusion
          /\ result.matches = <<>>

\* match_operators raised at the natural tier
C10_Witness ==
    /\ pc = "raised"
    /\ Len(chem_calls) = 3
    /\ chem_calls[3].raised


\* the tool call being served is one handle_call_tool accepts
ValidCall ==
    /\ request.name = "evaluate_reaction"
    /\ Truthy(request.arguments.substrate_name)
    /\ Truthy(request.arguments.product_name)

ParsesTo(t, v) == JsonLoadsString(t).ok /\ JsonLoadsString(t).val = v

\* C13: the text returned for a verdict parses back, field by field, to the
\* verdict's values.
C13_JsonRoundTrip ==
    pc = "returned" =>
        /\ ParsesTo(result_text.substrate_name, result.substrate_name)
        /\ ParsesTo(result_text.product_name, result.product_name)
        /\ ParsesTo(result_text.substrate_smiles, result.substrate_smiles)
        /\ ParsesTo(result_text.product_smiles, result.product_smiles)
        /\ ParsesTo(result_text.conclusion, ConclusionText(result.conclusion))
        /\ Len(result_text.matches) = Len(result.matches)
        /\ \A i \in DOMAIN result.matches :
              ParsesTo(result_text.matches[i], result.matches[i].evodex_id)

\* the part of C13 the code does keep: the matches, written by json.dumps,
\* and the conclusion parse back
C13_MatchesRoundTrip ==
    pc = "returned" =>
        /\ ParsesTo(result_text.conclusion, ConclusionText(result.conclusion))
        /\ \A i \in DOMAIN result.matches :
              ParsesTo(result_text.matches[i], result.matches[i].evodex_id)


\* C12: with resolvers and chemistry capability that are functions of
\* their input, a request is answered exactly as the first request with the
\* same name pair was, whatever was evaluated in between.
C12_Deterministic ==
    pc \in {"returned", "raised"} /\ verdicts[RequestPair].kind # "none" =>
        Outcome = verdicts[RequestPair]

\* a pair is answered a second time, with matches, after the other pair was
\* answered too
C12_Witness ==
    /\ pc = "returned"
    /\ \A r \in Requests : verdicts[r].kind # "none"
    /\ result.matches # <<>>
    /\ \E r \in Requests : verdicts[r].verdict.matches # result.matches

\* the number of tool exchanges the message list holds
Exchanges == IF messages = <<>> THEN 0 ELSE (Len(messages) - 1) \div 2

C15_UntilModelStops ==
    run_result.kind = "returned" => ~IsToolCall(last_response)

\* what run is to return for a response that is no tool call: the content,
\* or the response as a string when a dict has no non-empty content or
\* another object has no content at all
C15_FinalAnswer(response) ==
    IF response.is_dict
    THEN IF response.has_content /\ ~response.content.none
            /\ response.content.str # <<>>
         THEN response.content
         ELSE [none |-> FALSE, str |-> <<"str of">>, of |-> response]
    ELSE IF response.has_content THEN response.content
         ELSE [none |-> FALSE, str |-> <<"str of">>, of |-> response]

\* C15 amended: run keeps relaying while the model asks for tools, for at
\* most MaxIterations model invocations; it returns the first response that
\* is no tool call if it comes within them, and the fixed text after the
\* MaxIterations-th consecutive tool call was relayed or when the model
\* yields no response.
C15_UntilModelStopsOrCap ==
    /\ agent_pc = "loop" =>
          /\ iteration < MaxIterations
          /\ Len(relayed) = iteration
          /\ Exchanges = iteration
    /\ run_result.kind = "returned" =>
          IF IsToolCall(last_response)
          THEN /\ iteration = MaxIterations
               /\ Exchanges = MaxIterations
               /\ run_result.val = MaxIterationsText
          ELSE IF last_response = NoResponse
          THEN run_result.val = MaxIterationsText
          ELSE /\ Exchanges = iteration - 1
               /\ run_result.val = C15_FinalAnswer(last_response)

\* the model stops asking on its last permitted invocation, with a dict
\* that has no content: run returns the response as a string
C15_Witness ==
    /\ run_result.kind = "returned"
    /\ iteration = MaxIterations
    /\ Len(relayed) = MaxIterations - 1
    /\ last_response.is_dict
    /\ ~IsToolCall(last_response)
    /\ run_result.val = PyStr(last_response)

\* the bounds of one run
C16_Bounded ==
    /\ Len(model_inputs) <= MaxIterations
    /\ Len(relayed) <= MaxIterations
    /\ iteration <= MaxIterations
    /\ Exchanges = MaxIterations =>
          /\ agent_pc = "done"
          /\ run_result = [kind |-> "returned", val |-> MaxIterationsText]
    /\ iteration > 0 /\ last_response = NoResponse =>
          /\ agent_pc = "done"
          /\ run_result.kind = "returned"

\* C16: a run that has begun ends, every model invocation and tool call
\* returning; it invokes the model at most MaxIterations times and relays
\* at most MaxIterations tool calls, returns the fixed text when the model
\* asked for a tool every time, and stops at once when the model yields no
\* response.
C16_Terminates ==
    /\ []C16_Bounded
    /\ (agent_pc = "loop") ~> (agent_pc = "done")

\* the model asked for a tool on every iteration
C16_Witness ==
    /\ agent_pc = "done"
    /\ Len(model_inputs) = MaxIterations
    /\ Len(relayed) = MaxIterations
    /\ run_result.val = MaxIterationsText

\* a successfully initialized, not yet closed MCP session exists
Live ==
    /\ initialized
    /\ session_context = "entered"
    /\ stdio_context = "entered"

\* C17 as stated: the model is invoked and tools are called only while a
\* successfully initialized, not yet closed session exists.
C17_OnlyWhileLive ==
    model_inputs # <<>> \/ relayed # <<>> => Live

\* the part of C17 about close(): the session context is released before
\* the stdio context, and both are released when both exist, whether or
\* not the first release raised
C17_CloseOrder ==
    /\ session_context = "exited" =>
          /\ Len(releases) = 2
          /\ releases[1].context = "session"
          /\ releases[2].context = "stdio"
          /\ stdio_context = "exited"
    /\ stdio_context = "exited" /\ session_context = "None" =>
          /\ Len(releases) = 1
          /\ releases[1].context = "stdio"

====
